---- MODULE Spec2Model ----
(***************************************************************************)
(* Model of cli_rng_gen_raw_interactions                                   *)
(* (src/src/ui/commands/cli_rng_gen_raw_interactions.rs): the bounded      *)
(* retry, unique sampling loop 'myloop and the value the command returns.  *)
(*                                                                         *)
(* A state holds one or two invocations of the command (runs).  Every      *)
(* per-run variable is a function on the set of runs, DOMAIN args.         *)
(***************************************************************************)
EXTENDS Integers, Sequences, FiniteSets, TLC

(* ----------------------------- bounds ---------------------------------- *)
\* --num_ints ranges over 0..MaxTarget
MaxTarget == 2
\* --num_tries ranges over 0..MaxBudget
MaxBudget == 2
\* --seed ranges over 0..MaxSeed
MaxSeed == 0
\* the generator returns None or one of the interactions 1..MaxArtifact
MaxArtifact == 2
\* the process entropy that keys a HashSet ranges over 0..MaxEntropy
MaxEntropy == 1
\* generator invocations explored per run (reached only after max_tries wrapped)
MaxAttempts == 3
\* the first MaxExplicit weights of line 215 may be given on the command line
MaxExplicit == 2

(* ------------------------ unsigned 32-bit values ----------------------- *)
\* A u32 is kept as two 16-bit limbs <<high, low>>: its value is
\* high * 2^16 + low, which stays exact up to 2^32 - 1.
Limb == 65536

ToU32(n) == <<n \div Limb, n % Limb>>

U32Zero == <<0, 0>>

U32Max == <<Limb - 1, Limb - 1>>

\* a < b on u32 values
U32Less(a, b) == a[1] < b[1] \/ (a[1] = b[1] /\ a[2] < b[2])

\* v - 1 with two's complement wrapping (the release build's `-= 1`)
WrappingSubOne(v) ==
    IF v[2] > 0 THEN <<v[1], v[2] - 1>>
    ELSE IF v[1] > 0 THEN <<v[1] - 1, Limb - 1>>
    ELSE U32Max

\* `max_tries -= 1` overflows exactly when max_tries is 0
SubOneOverflows(v) == v = U32Zero

\* mutant: the exhaustion test is `max_tries <= 1`
BudgetSpentAtOne(v) == v = <<0, 0>> \/ v = <<0, 1>>

\* mutant: the exhaustion test never fires
BudgetSpentNever(v) == FALSE

\* `max_tries <= 0` on a u32
BudgetSpent(v) == v = U32Zero

\* the four bytes of a u32, least significant first
Bytes(v) == <<v[2] % 256, v[2] \div 256, v[1] % 256, v[1] \div 256>>

\* column k of the schoolbook product of the byte strings a and b, from row i
RECURSIVE Column(_, _, _, _)
Column(a, b, k, i) ==
    IF i > Len(a) THEN 0
    ELSE (IF (k + 1 - i) \in 1..Len(b) THEN a[i] * b[k + 1 - i] ELSE 0)
         + Column(a, b, k, i + 1)

\* the carry into byte k of the product
RECURSIVE CarryInto(_, _, _)
CarryInto(a, b, k) ==
    IF k = 1 THEN 0
    ELSE (Column(a, b, k - 1, 1) + CarryInto(a, b, k - 1)) \div 256

\* the exact product of two byte strings, Len(a) + Len(b) bytes long
MulWide(a, b) ==
    [k \in 1..(Len(a) + Len(b)) |-> (Column(a, b, k, 1) + CarryInto(a, b, k)) % 256]

\* `a * b` on u32: the low 32 bits of the product, and whether bits were lost
MulU32(a, b) ==
    LET p == MulWide(Bytes(a), Bytes(b))
    IN  [ val |-> <<p[4] * 256 + p[3], p[2] * 256 + p[1]>>,
          overflow |-> \E k \in 5..8 : p[k] # 0 ]

\* the fixed multiplier of line 92
Multiplier == 100

\* `number_of_interactions*100*min_symbols`, evaluated left to right
DefaultNumTries(n, m) ==
    LET t == MulU32(ToU32(n), ToU32(Multiplier))
        u == MulU32(t.val, ToU32(m))
    IN  [val |-> u.val, overflow |-> t.overflow \/ u.overflow]

(* ------------------------------ state ---------------------------------- *)
VARIABLES
    overflow_checks,  \* build profile: TRUE = arithmetic overflow panics (debug)
    args,             \* per run: the parsed command line
    entropy,          \* per run: process entropy (keys of HashSet::new())
    gen_table,        \* the generator, revealed as it is called: rng state -> result
    pc,               \* per run: position in the function
    memoized_ints,    \* per run: the HashSet of interactions written so far
    rng,              \* per run: the StdRng
    x,                \* per run: number of interactions written
    max_tries,        \* per run: remaining retries, a u32
    written,          \* per run: the interaction_to_hif calls made, in order
    outcomes,         \* per run: the outcome of each loop iteration, in order
    left_by,          \* per run: how 'myloop was left
    ret,              \* per run: the returned value, <<>> before the return
    cli,              \* per run: the rest of the command line and the hsf file
    num_tries,        \* per run: the local num_tries, a u32
    probas_name,      \* per run: the local probas_name
    probas,           \* per run: the constructor that built the local probas
    panic_msg         \* per run: the message of the panic, "" when none

\* the locals and inputs of the configuration part (lines 55-284)
cfg_vars == <<cli, num_tries, probas_name, probas>>

vars == <<overflow_checks, args, entropy, gen_table, pc, memoized_ints, rng, x,
          max_tries, written, outcomes, left_by, ret, cfg_vars, panic_msg>>

Runs == DOMAIN args

Artifacts == 1..MaxArtifact

\* what generate_raw_random_interaction returns: None (0) or Some(i)
None == 0

GenResults == {None} \cup Artifacts

ArgsSet == [num_ints : 0..MaxTarget, num_tries : 0..MaxBudget, seed : 0..MaxSeed]

\* defaults of the arguments the model leaves absent
DefaultMaxDepth == 10

DefaultMinSymbols == 100

DefaultFolder == "gen_ints"

DefaultProbasName == "default"

(* ----------------------- the rest of the command line ------------------ *)
\* An optional argument is <<>> when absent and <<v>> when given.
\* Weights are counted in halves, which f32 adds exactly: One is the 1.0 of
\* line 215, and f32::EPSILON is far below one half.
One == 2

\* the order of the sum on line 215
WeightNames ==
    << "pempty", "paction", "pstrict", "pseq", "pcoreg", "ppar", "ploopS",
       "ploopW", "ploopP", "palt", "pbasic", "ptransmission", "pbroadcast" >>

\* 0.5 for pempty and paction
DefaultHalf == 1

\* 0.0 for the other eleven
DefaultZero == 0

\* the value a weight takes when its argument is absent (lines 98-213)
DefaultWeight(k) == IF k <= 2 THEN DefaultHalf ELSE DefaultZero

NoWeights == [k \in 1..Len(WeightNames) |-> <<>>]

\* the command line of a run given --num_ints, --num_tries and --seed only
PlainCli ==
    [ hsf_ok |-> TRUE, num_tries_given |-> TRUE, min_symbols |-> DefaultMinSymbols,
      probas |-> <<>>, weights |-> NoWeights ]

\* what --pempty ... may carry: absent, or 0.0, 0.5, 1.0
WeightArgSet == {<<>>} \cup {<<v>> : v \in 0..One}

WeightArgs ==
    { [k \in 1..Len(WeightNames) |-> IF k <= MaxExplicit THEN f[k] ELSE <<>>] :
        f \in [1..MaxExplicit -> WeightArgSet] }

\* what --probas may carry: absent, the four names of lines 241-257, another
ProbasArgs ==
    { <<>>, <<"conservative">>, <<"protocols_with_coreg">>, <<"custom">>,
      <<"default">>, <<"bogus">> }

\* --min_symbols: absent (100), or large enough for the default budget to
\* leave 31 bits, and 32 bits
MinSymbolsSet == {DefaultMinSymbols, 15000000, 30000000}

CliSet ==
    [ hsf_ok : BOOLEAN, num_tries_given : BOOLEAN, min_symbols : MinSymbolsSet,
      probas : ProbasArgs, weights : WeightArgs ]

\* the f32 local of weight k after lines 98-213
Weight(r, k) ==
    IF cli[r].weights[k] = <<>> THEN DefaultWeight(k) ELSE cli[r].weights[k][1]

RECURSIVE SumFrom(_, _)
SumFrom(r, k) == IF k > Len(WeightNames) THEN 0 ELSE Weight(r, k) + SumFrom(r, k + 1)

\* pempty + paction + ... + pbc
WeightSum(r) == SumFrom(r, 1)

\* mutant: the sum is tested only for the custom profile
SumCheckOnlyCustom(r) == cli[r].probas = <<"custom">>

\* the test of line 215 is not guarded by the profile
SumCheckApplies(r) == TRUE

\* `(sum - 1.0).abs() > f32::EPSILON`
SumOff(r) ==
    LET d == WeightSum(r) - One
    IN  SumCheckApplies(r) /\ (IF d < 0 THEN 0 - d ELSE d) > 0

\* mutant: an unknown name falls back to the default profile
KnownProbasAny(p) == TRUE

\* the arms of the match on lines 240-261 that do not panic
KnownProbas(p) ==
    p \in { <<>>, <<"conservative">>, <<"protocols_with_coreg">>, <<"custom">>,
            <<"default">> }

\* the value probas_name holds after lines 237-264
ProbasName(p) ==
    IF p = <<"conservative">> THEN "conservative"
    ELSE IF p = <<"protocols_with_coreg">> THEN "conservative"
    ELSE IF p = <<"custom">> THEN "custom"
    ELSE DefaultProbasName

\* the constructor of InteractionSymbolsProbabilities called on lines 238-264
ProbasCtor(p) ==
    IF p = <<"conservative">> THEN "conservative"
    ELSE IF p = <<"protocols_with_coreg">> THEN "protocols_with_coreg"
    ELSE IF p = <<"custom">> THEN "custom"
    ELSE "default_non_regular"

\* the tuple returned on line 58
ParseErrorValue == << <<"hsf parse error">>, 1, "0.0" >>

(* --------------------------- pure helpers ------------------------------ *)
\* StdRng::seed_from_u64: the state is a function of the seed and of the
\* number of generator calls that have drawn from it
seed_from_u64(s) == [seed |-> s, calls |-> 0]

\* mutant: the rng is seeded from process entropy instead of --seed
NewRngFromEntropy(r) == seed_from_u64(entropy[r])

\* the rng handed to the generator by run r
NewRng(r) == seed_from_u64(args[r].seed)

\* HashSet::new(): empty, keyed by the process entropy
NewHashSet(r) == [keys |-> entropy[r], elems |-> {}]

\* mutant: nothing is ever found in the set
ContainsNever(set, i) == FALSE

\* mutant: everything is found in the set
ContainsAlways(set, i) == TRUE

\* memoized_ints.contains(&i)
Contains(set, i) == i \in set.elems

\* mutant: the set keeps only the last interaction
InsertReplaces(set, i) == [set EXCEPT !.elems = {i}]

\* mutant: the written interaction is not memoized
InsertForgets(set, i) == set

\* memoized_ints.insert(i)
Insert(set, i) == [set EXCEPT !.elems = @ \cup {i}]

\* mutant: the body runs once before the first test (do-while)
WhileCondAfterBody(r) == x[r] < args[r].num_ints \/ Len(outcomes[r]) = 0

\* mutant: the loop runs while x <= number_of_interactions
WhileCondLe(r) == x[r] <= args[r].num_ints

\* `x < number_of_interactions`
WhileCond(r) == x[r] < args[r].num_ints

\* mutant: files are numbered by attempt instead of by x
FileOrdinalByAttempt(r) == Len(outcomes[r])

\* the ordinal in the file name "i{x}.hif"
FileOrdinal(r) == x[r]

\* the lines pushed to ret_print, each kept as the values it formats
RetPrint(r) ==
    << "generated random interactions interactions",
       <<"with", probas_name[r], "interaction symbols selection probabilities">>,
       <<"num_ints", args[r].num_ints, "max_depth", DefaultMaxDepth,
         "min_symbols", cli[r].min_symbols, "seed", args[r].seed>>,
       <<"in folder", DefaultFolder>> >>

\* the tuple returned on line 323 (the f32 is the constant 0.0)
ReturnValue(r) == <<RetPrint(r), 0, "0.0">>

(* ------------------------------ Init ----------------------------------- *)
\* the state at line 286 of runs given --num_ints, --num_tries and --seed only,
\* on a context file that parses
InitRuns(rs) ==
    /\ overflow_checks \in BOOLEAN
    /\ args \in [rs -> ArgsSet]
    /\ entropy \in [rs -> 0..MaxEntropy]
    /\ gen_table = <<>>
    /\ pc = [r \in rs |-> "entry"]
    /\ memoized_ints = [r \in rs |-> [keys |-> 0, elems |-> {}]]
    /\ rng = [r \in rs |-> seed_from_u64(0)]
    /\ x = [r \in rs |-> 0]
    /\ max_tries = [r \in rs |-> U32Zero]
    /\ written = [r \in rs |-> <<>>]
    /\ outcomes = [r \in rs |-> <<>>]
    /\ left_by = [r \in rs |-> "none"]
    /\ ret = [r \in rs |-> <<>>]
    /\ cli = [r \in rs |-> PlainCli]
    /\ num_tries = [r \in rs |-> ToU32(args[r].num_tries)]
    /\ probas_name = [r \in rs |-> DefaultProbasName]
    /\ probas = [r \in rs |-> "default_non_regular"]
    /\ panic_msg = [r \in rs |-> ""]

\* one invocation of the command
Init == InitRuns({1})

(* ----------------------------- actions --------------------------------- *)
\* lines 286-290: the locals of the loop
Setup(r) ==
    /\ pc[r] = "entry"
    /\ memoized_ints' = [memoized_ints EXCEPT ![r] = NewHashSet(r)]
    /\ rng' = [rng EXCEPT ![r] = NewRng(r)]
    /\ x' = [x EXCEPT ![r] = 0]
    /\ max_tries' = [max_tries EXCEPT ![r] = num_tries[r]]
    /\ pc' = [pc EXCEPT ![r] = "myloop"]
    /\ UNCHANGED <<overflow_checks, args, entropy, gen_table, written, outcomes,
                   left_by, ret, cfg_vars, panic_msg>>

\* line 291: the test of the while loop
WhileTest(r) ==
    /\ pc[r] = "myloop"
    /\ IF WhileCond(r)
       THEN /\ pc' = [pc EXCEPT ![r] = "body"]
            /\ UNCHANGED left_by
       ELSE /\ pc' = [pc EXCEPT ![r] = "after_loop"]
            /\ left_by' = [left_by EXCEPT ![r] = "while"]
    /\ UNCHANGED <<overflow_checks, args, entropy, gen_table, memoized_ints, rng,
                   x, max_tries, written, outcomes, ret, cfg_vars, panic_msg>>

\* lines 293-308 when the generator returned Some(i) and i is not memoized
Novel(r, i) ==
    /\ written' = [written EXCEPT
                     ![r] = Append(@, [ordinal |-> FileOrdinal(r), artifact |-> i])]
    /\ memoized_ints' = [memoized_ints EXCEPT ![r] = Insert(@, i)]
    /\ x' = [x EXCEPT ![r] = @ + 1]
    /\ outcomes' = [outcomes EXCEPT ![r] = Append(@, "novel")]
    /\ pc' = [pc EXCEPT ![r] = "myloop"]
    /\ UNCHANGED <<max_tries, left_by, panic_msg>>

\* lines 310-317 when got_one is false
Retry(r, kind) ==
    /\ outcomes' = [outcomes EXCEPT ![r] = Append(@, kind)]
    /\ UNCHANGED <<written, memoized_ints, x>>
    /\ IF SubOneOverflows(max_tries[r]) /\ overflow_checks
       THEN /\ pc' = [pc EXCEPT ![r] = "panicked"]
            /\ panic_msg' = [panic_msg EXCEPT ![r] = "attempt to subtract with overflow"]
            /\ UNCHANGED <<max_tries, left_by>>
       ELSE /\ max_tries' = [max_tries EXCEPT ![r] = WrappingSubOne(@)]
            /\ UNCHANGED panic_msg
            /\ IF BudgetSpent(WrappingSubOne(max_tries[r]))
               THEN /\ pc' = [pc EXCEPT ![r] = "after_loop"]
                    /\ left_by' = [left_by EXCEPT ![r] = "break"]
               ELSE /\ pc' = [pc EXCEPT ![r] = "myloop"]
                    /\ UNCHANGED left_by

\* generate_raw_random_interaction is a function of the rng state it is
\* handed (its context, bounds and probabilities are fixed here): g can be
\* returned to run r unless the same rng state already produced another result
Generates(r, g) == rng[r] \in DOMAIN gen_table => g = gen_table[rng[r]]

\* lines 292-318: one iteration of 'myloop
Body(r) ==
    /\ pc[r] = "body"
    /\ Len(outcomes[r]) < MaxAttempts
    /\ \E g \in GenResults :
         /\ Generates(r, g)
         /\ gen_table' = (rng[r] :> g) @@ gen_table
         /\ rng' = [rng EXCEPT ![r].calls = @ + 1]
         /\ IF g # None /\ ~Contains(memoized_ints[r], g)
            THEN Novel(r, g)
            ELSE Retry(r, IF g = None THEN "none" ELSE "duplicate")
    /\ UNCHANGED <<overflow_checks, args, entropy, ret, cfg_vars>>

\* line 323
Return(r) ==
    /\ pc[r] = "after_loop"
    /\ ret' = [ret EXCEPT ![r] = ReturnValue(r)]
    /\ pc' = [pc EXCEPT ![r] = "returned"]
    /\ UNCHANGED <<overflow_checks, args, entropy, gen_table, memoized_ints, rng,
                   x, max_tries, written, outcomes, left_by, cfg_vars, panic_msg>>

Next ==
    \E r \in Runs :
        \/ Setup(r)
        \/ WhileTest(r)
        \/ Body(r)
        \/ Return(r)

Spec == Init /\ [][Next]_vars

(* ---------------------- the configuration part ------------------------- *)
\* one invocation, from the call of the function.  --min_symbols is varied
\* where it decides the budget, that is when --num_tries is absent; the
\* HashSet keys, which no step of the configuration part reads, are not varied.
InitCli ==
    /\ overflow_checks \in BOOLEAN
    /\ args \in [{1} -> ArgsSet]
    /\ cli \in [{1} -> CliSet]
    /\ \A r \in {1} :
          IF cli[r].num_tries_given
          THEN cli[r].min_symbols = DefaultMinSymbols
          ELSE args[r].num_tries = 0
    /\ entropy = [r \in {1} |-> 0]
    /\ gen_table = <<>>
    /\ pc = [r \in {1} |-> "start"]
    /\ memoized_ints = [r \in {1} |-> [keys |-> 0, elems |-> {}]]
    /\ rng = [r \in {1} |-> seed_from_u64(0)]
    /\ x = [r \in {1} |-> 0]
    /\ max_tries = [r \in {1} |-> U32Zero]
    /\ written = [r \in {1} |-> <<>>]
    /\ outcomes = [r \in {1} |-> <<>>]
    /\ left_by = [r \in {1} |-> "none"]
    /\ ret = [r \in {1} |-> <<>>]
    /\ num_tries = [r \in {1} |-> U32Zero]
    /\ probas_name = [r \in {1} |-> ""]
    /\ probas = [r \in {1} |-> ""]
    /\ panic_msg = [r \in {1} |-> ""]

\* lines 55-60: the context file
ParseHsf(r) ==
    /\ pc[r] = "start"
    /\ IF cli[r].hsf_ok
       THEN /\ pc' = [pc EXCEPT ![r] = "parsed"]
            /\ UNCHANGED ret
       ELSE /\ ret' = [ret EXCEPT ![r] = ParseErrorValue]
            /\ pc' = [pc EXCEPT ![r] = "returned"]
    /\ UNCHANGED <<overflow_checks, args, entropy, gen_table, memoized_ints, rng,
                   x, max_tries, written, outcomes, left_by, cfg_vars, panic_msg>>

\* lines 62-217: the numeric arguments and the test of the weights
ParseArgs(r) ==
    LET d == DefaultNumTries(args[r].num_ints, cli[r].min_symbols)
    IN  /\ pc[r] = "parsed"
        /\ IF ~cli[r].num_tries_given /\ d.overflow /\ overflow_checks
           THEN /\ pc' = [pc EXCEPT ![r] = "panicked"]
                /\ panic_msg' = [panic_msg EXCEPT
                                   ![r] = "attempt to multiply with overflow"]
                /\ UNCHANGED num_tries
           ELSE /\ num_tries' = [num_tries EXCEPT
                                   ![r] = IF cli[r].num_tries_given
                                          THEN ToU32(args[r].num_tries)
                                          ELSE d.val]
                /\ IF SumOff(r)
                   THEN /\ pc' = [pc EXCEPT ![r] = "panicked"]
                        /\ panic_msg' = [panic_msg EXCEPT
                                           ![r] = "Probabilities do not sum to 1.0"]
                   ELSE /\ pc' = [pc EXCEPT ![r] = "checked"]
                        /\ UNCHANGED panic_msg
        /\ UNCHANGED <<overflow_checks, args, entropy, gen_table, memoized_ints,
                       rng, x, max_tries, written, outcomes, left_by, ret, cli,
                       probas_name, probas>>

\* lines 221-284: seed, folder, the profile and the status lines
SelectProbas(r) ==
    /\ pc[r] = "checked"
    /\ IF KnownProbas(cli[r].probas)
       THEN /\ probas_name' = [probas_name EXCEPT ![r] = ProbasName(cli[r].probas)]
            /\ probas' = [probas EXCEPT ![r] = ProbasCtor(cli[r].probas)]
            /\ pc' = [pc EXCEPT ![r] = "entry"]
            /\ UNCHANGED panic_msg
       ELSE /\ pc' = [pc EXCEPT ![r] = "panicked"]
            /\ panic_msg' = [panic_msg EXCEPT
                               ![r] = "unknown probas for interactions generations"]
            /\ UNCHANGED <<probas_name, probas>>
    /\ UNCHANGED <<overflow_checks, args, entropy, gen_table, memoized_ints, rng,
                   x, max_tries, written, outcomes, left_by, ret, cli, num_tries>>

NextCli ==
    \E r \in Runs :
        \/ ParseHsf(r)
        \/ ParseArgs(r)
        \/ SelectProbas(r)
        \/ Setup(r)
        \/ WhileTest(r)
        \/ Body(r)
        \/ Return(r)

SpecCli == InitCli /\ [][NextCli]_vars

\* two independent invocations of the same build that print the same
\* configuration lines: they may differ in --num_tries and in process entropy
InitPair ==
    /\ InitRuns({1, 2})
    /\ args[1].num_ints = args[2].num_ints
    /\ args[1].seed = args[2].seed

SpecPair == InitPair /\ [][Next]_vars

(* ------------------------- derived notions ----------------------------- *)
\* the sampler's logical state
State(r) ==
    IF left_by[r] = "while" THEN "Succeeded"
    ELSE IF left_by[r] = "break" THEN "Exhausted"
    ELSE IF pc[r] = "panicked" THEN "Panicked"
    ELSE "Running"

\* generator invocations made so far
Attempts(r) == Len(outcomes[r])

\* the run makes no further step of the loop
Finished(r) == pc[r] \in {"after_loop", "returned", "panicked"}

SamePrefix(a, b) ==
    \A k \in 1..(IF Len(a) < Len(b) THEN Len(a) ELSE Len(b)) : a[k] = b[k]

(* ------------------------------ claims --------------------------------- *)

\* C1: in every reachable state the number of generator invocations made so
\* far is at most the initial retry budget plus produced-count, for every
\* budget >= 0.
C1_AttemptsWithinBudget ==
    \A r \in Runs : Attempts(r) <= args[r].num_tries + x[r]

\* C2: with retry budget 0, a target of at least 1 and a first attempt that is
\* not novel, the run is Exhausted after exactly one attempt, with
\* produced-count 0 and nothing written.
C2_ZeroBudgetExhausts ==
    \A r \in Runs :
        ( /\ args[r].num_tries = 0
          /\ args[r].num_ints >= 1
          /\ Attempts(r) >= 1
          /\ outcomes[r][1] # "novel" )
        => ( /\ State(r) = "Exhausted"
             /\ Attempts(r) = 1
             /\ x[r] = 0
             /\ written[r] = <<>> )

\* C3: two runs that have returned and differ in termination reason or in
\* produced-count never return the same value.
C3_ReturnTellsOutcome ==
    \A r, s \in Runs :
        ( /\ pc[r] = "returned"
          /\ pc[s] = "returned"
          /\ (State(r) # State(s) \/ x[r] # x[s]) )
        => ret[r] # ret[s]

\* C4: produced-count x never exceeds target_count (number_of_interactions).
C4_ProducedAtMostTarget ==
    \A r \in Runs : x[r] <= args[r].num_ints

C4_Witness ==
    \E r \in Runs :
        /\ left_by[r] = "while"
        /\ args[r].num_ints >= 2
        /\ x[r] = args[r].num_ints

\* C5: no two written interactions of a run are equal, and every written
\* interaction is in memoized_ints before the next attempt.
C5_NoTwoWrittenEqual ==
    \A r \in Runs :
        /\ \A j, k \in 1..Len(written[r]) :
               j # k => written[r][j].artifact # written[r][k].artifact
        /\ \A j \in 1..Len(written[r]) :
               Contains(memoized_ints[r], written[r][j].artifact)

C5_Witness ==
    \E r \in Runs :
        /\ Len(written[r]) = 2
        /\ \E k \in 1..Attempts(r) : outcomes[r][k] = "duplicate"

\* C6: the ordinals written so far are exactly 0 .. produced-count - 1, in
\* order and each once; failed and duplicate attempts leave no gap.
C6_OrdinalsContiguous ==
    \A r \in Runs :
        /\ Len(written[r]) = x[r]
        /\ \A k \in 1..Len(written[r]) : written[r][k].ordinal = k - 1

C6_Witness ==
    \E r \in Runs :
        /\ Len(written[r]) = 2
        /\ outcomes[r][1] = "none"
        /\ Attempts(r) = 3

\* C7: every attempt either lowers the remaining budget by exactly one and
\* leaves produced-count alone, or raises produced-count by exactly one and
\* leaves the remaining budget alone.
C7_AttemptConsumesOrProduces ==
    [][ \A r \in Runs :
          Attempts(r)' = Attempts(r) + 1
          => \/ ( /\ U32Less(max_tries'[r], max_tries[r])
                  /\ WrappingSubOne(max_tries[r]) = max_tries'[r]
                  /\ x'[r] = x[r] )
             \/ ( /\ x'[r] = x[r] + 1
                  /\ max_tries'[r] = max_tries[r] ) ]_vars

\* the run is in a terminal state of the sampler: the target is reached, or
\* the budget has reached zero after a budget-consuming attempt
Terminal(r) ==
    \/ (pc[r] # "entry" /\ x[r] >= args[r].num_ints)
    \/ ( /\ Attempts(r) >= 1
         /\ outcomes[r][Attempts(r)] # "novel"
         /\ max_tries[r] = U32Zero )

\* C8: once the target is reached, or the budget has reached zero after a
\* budget-consuming attempt, no generator invocation and no write follows.
C8_TerminalStatesStop ==
    [][ \A r \in Runs :
          Terminal(r) => (outcomes'[r] = outcomes[r] /\ written'[r] = written[r]) ]_vars

C8_Witness ==
    \E r \in Runs :
        /\ pc[r] = "returned"
        /\ State(r) = "Succeeded"
        /\ x[r] >= 1
        /\ U32Less(U32Zero, max_tries[r])

\* C9: for every budget >= 0 the loop makes at most target_count +
\* retry_budget attempts.
C9_AttemptsBounded ==
    \A r \in Runs : Attempts(r) <= args[r].num_ints + args[r].num_tries

\* C10: two runs with the same seed and configuration go through the same
\* per-attempt outcomes and end with the same produced-count, the same
\* interaction under each ordinal and the same termination reason; the rng is
\* the one seeded before the loop, advanced once per generator call.
C10_RunsReproducible ==
    /\ \A r \in Runs :
           pc[r] # "entry"
           => rng[r] = [seed |-> args[r].seed, calls |-> Attempts(r)]
    /\ \A r, s \in Runs :
           args[r] = args[s]
           => /\ SamePrefix(outcomes[r], outcomes[s])
              /\ SamePrefix(written[r], written[s])
              /\ (Finished(r) /\ Finished(s))
                 => /\ outcomes[r] = outcomes[s]
                    /\ written[r] = written[s]
                    /\ x[r] = x[s]
                    /\ State(r) = State(s)

C10_Witness ==
    /\ args[1] = args[2]
    /\ entropy[1] # entropy[2]
    /\ pc[1] = "returned"
    /\ pc[2] = "returned"
    /\ x[1] >= 1
    /\ \E k \in 1..Attempts(1) : outcomes[1][k] = "duplicate"

\* the result of the k-th generator call of run r
GenResult(r, k) == gen_table[[seed |-> args[r].seed, calls |-> k - 1]]

\* so far the generator has returned the same interaction on every call
SameArtifactSoFar(r) ==
    \E a \in Artifacts : \A k \in 1..Attempts(r) : GenResult(r, k) = a

\* so far the generator has returned pairwise distinct interactions
DistinctSoFar(r) ==
    /\ \A k \in 1..Attempts(r) : GenResult(r, k) # None
    /\ \A j, k \in 1..Attempts(r) : j # k => GenResult(r, j) # GenResult(r, k)

\* C13: with a generator that returns the same interaction on every call, a
\* target >= 2 and a budget B >= 1, the run writes only ordinal 0 and, once
\* it has ended, is Exhausted with produced-count 1 after exactly B + 1
\* attempts.
C13_SameArtifactExhausts ==
    \A r \in Runs :
        (args[r].num_ints >= 2 /\ args[r].num_tries >= 1 /\ SameArtifactSoFar(r))
        => /\ x[r] <= 1
           /\ Attempts(r) <= args[r].num_tries + 1
           /\ Attempts(r) >= 1
              => written[r] = <<[ordinal |-> 0, artifact |-> GenResult(r, 1)]>>
           /\ Finished(r)
              => /\ State(r) = "Exhausted"
                 /\ x[r] = 1
                 /\ Attempts(r) = args[r].num_tries + 1

C13_Witness ==
    \E r \in Runs :
        /\ args[r].num_ints >= 2
        /\ args[r].num_tries >= 2
        /\ SameArtifactSoFar(r)
        /\ pc[r] = "returned"
        /\ Attempts(r) = args[r].num_tries + 1

\* C14: with a generator that always returns a new interaction, for every
\* target N and every budget (0 included) each attempt writes the next
\* ordinal, the budget stays at its initial value, and the run ends Succeeded
\* after exactly N attempts with produced-count N.
C14_DistinctArtifactsSucceed ==
    \A r \in Runs :
        (pc[r] # "entry" /\ DistinctSoFar(r))
        => /\ x[r] = Attempts(r)
           /\ Attempts(r) <= args[r].num_ints
           /\ max_tries[r] = ToU32(args[r].num_tries)
           /\ Len(written[r]) = Attempts(r)
           /\ \A k \in 1..Len(written[r]) :
                  written[r][k] = [ordinal |-> k - 1, artifact |-> GenResult(r, k)]
           /\ Finished(r)
              => /\ State(r) = "Succeeded"
                 /\ Attempts(r) = args[r].num_ints

C14_Witness ==
    \E r \in Runs :
        /\ args[r].num_ints = 2
        /\ args[r].num_tries = 0
        /\ DistinctSoFar(r)
        /\ pc[r] = "returned"
        /\ x[r] = 2

\* C15: with target_count 0 the generator is never called, nothing is
\* written, the budget keeps its initial value and the loop is left
\* Succeeded, for every budget.
C15_ZeroTargetSucceeds ==
    \A r \in Runs :
        args[r].num_ints = 0
        => /\ Attempts(r) = 0
           /\ written[r] = <<>>
           /\ rng[r].calls = 0
           /\ pc[r] \notin {"body", "panicked"}
           /\ pc[r] # "entry" => max_tries[r] = ToU32(args[r].num_tries)
           /\ Finished(r) => State(r) = "Succeeded"

C15_Witness ==
    \E r \in Runs :
        /\ args[r].num_ints = 0
        /\ args[r].num_tries >= 1
        /\ pc[r] = "returned"
        /\ State(r) = "Succeeded"

\* the kind of the latest attempt of run r
LastOutcome(r) == outcomes[r][Attempts(r)]

\* C16: the run becomes Exhausted exactly at a budget-consuming attempt that
\* takes the remaining budget from one to zero while produced-count is below
\* the target; a novel attempt never leaves the loop by the exhaustion test,
\* and a run that ended with produced-count = target is Succeeded.
C16_ExhaustedExactlyWhen ==
    /\ [](\A r \in Runs :
            /\ State(r) = "Exhausted"
               => /\ x[r] < args[r].num_ints
                  /\ max_tries[r] = U32Zero
                  /\ Attempts(r) >= 1
                  /\ LastOutcome(r) # "novel"
            /\ (Finished(r) /\ x[r] = args[r].num_ints) => State(r) = "Succeeded")
    /\ [][ \A r \in Runs :
             /\ (State(r)' = "Exhausted" /\ State(r) # "Exhausted")
                <=> ( /\ Attempts(r)' = Attempts(r) + 1
                      /\ LastOutcome(r)' # "novel"
                      /\ max_tries[r] = ToU32(1)
                      /\ max_tries'[r] = U32Zero
                      /\ x'[r] < args[r].num_ints )
             /\ (Attempts(r)' = Attempts(r) + 1 /\ LastOutcome(r)' = "novel")
                => (left_by'[r] = left_by[r] /\ pc'[r] = "myloop") ]_vars

C16_Witness ==
    \E r \in Runs :
        /\ pc[r] = "returned"
        /\ State(r) = "Succeeded"
        /\ Attempts(r) >= 2
        /\ LastOutcome(r) = "novel"
        /\ max_tries[r] = ToU32(1)
        /\ x[r] = args[r].num_ints

\* C17: an attempt that yields no interaction or a duplicate leaves
\* memoized_ints, produced-count, the next ordinal and the written files
\* unchanged, and lowers the remaining budget by exactly one.
C17_FailedAttemptOnlyDecrements ==
    [][ \A r \in Runs :
          (Attempts(r)' = Attempts(r) + 1 /\ LastOutcome(r)' # "novel")
          => /\ memoized_ints'[r] = memoized_ints[r]
             /\ x'[r] = x[r]
             /\ FileOrdinal(r)' = FileOrdinal(r)
             /\ written'[r] = written[r]
             /\ U32Less(max_tries'[r], max_tries[r])
             /\ max_tries'[r] = WrappingSubOne(max_tries[r]) ]_vars

\* C18: the size of memoized_ints, produced-count and the number of written
\* files are equal, memoized_ints is exactly the set of written
\* interactions, and no element ever leaves memoized_ints.
C18_DedupSetMatchesWritten ==
    /\ [](\A r \in Runs :
            /\ Cardinality(memoized_ints[r].elems) = x[r]
            /\ Len(written[r]) = x[r]
            /\ memoized_ints[r].elems
                 = {written[r][k].artifact : k \in 1..Len(written[r])})
    /\ [][ \A r \in Runs :
             memoized_ints[r].elems \subseteq memoized_ints'[r].elems ]_vars

C18_Witness ==
    \E r \in Runs :
        /\ Cardinality(memoized_ints[r].elems) = 2
        /\ Len(written[r]) = 2
        /\ \E k \in 1..Attempts(r) : outcomes[r][k] # "novel"

(* ------------------- claims on the configuration part ------------------ *)
\* the run has left the configuration part with an error
ConfigError(r) ==
    \/ ~cli[r].hsf_ok
    \/ WeightSum(r) # One
    \/ cli[r].probas \notin { <<>>, <<"conservative">>, <<"protocols_with_coreg">>,
                              <<"custom">>, <<"default">> }

\* the run has entered the sampling part (line 286 onwards)
Sampling(r) ==
    \/ pc[r] \in {"entry", "myloop", "body", "after_loop"}
    \/ (pc[r] = "returned" /\ ret[r] # ParseErrorValue)
    \/ (pc[r] = "panicked" /\ panic_msg[r] = "attempt to subtract with overflow")

ExactProduct(n, m) ==
    MulWide(MulWide(Bytes(ToU32(n)), Bytes(ToU32(Multiplier))), Bytes(ToU32(m)))

\* C12: when --num_tries is absent the run gets a budget and that budget is
\* exactly target_count * 100 * min_symbols.
C12_DefaultBudgetIsProduct ==
    \A r \in Runs :
        (cli[r].hsf_ok /\ ~cli[r].num_tries_given /\ pc[r] \notin {"start", "parsed"})
        => /\ panic_msg[r] # "attempt to multiply with overflow"
           /\ [k \in 1..12 |-> IF k <= 4 THEN Bytes(num_tries[r])[k] ELSE 0]
                = ExactProduct(args[r].num_ints, cli[r].min_symbols)

\* no weight is given on the command line
NoExplicitWeights(r) == \A k \in 1..Len(WeightNames) : cli[r].weights[k] = <<>>

SelectedProfile(r) == IF cli[r].probas = <<>> THEN "default" ELSE cli[r].probas[1]

\* C20: the name in the returned line "with <name> interaction symbols
\* selection probabilities" is the name of the profile selected for the run,
\* and "default" when none is selected.
C20_StatusLineNamesProfile ==
    \A r \in Runs :
        (pc[r] = "returned" /\ ret[r][2] = 0)
        => ret[r][1][2][2] = SelectedProfile(r)

====
